---- MODULE Spec2Model ----
(***************************************************************************)
(* The JSON-file CRUD service: the collection store (dataLoader.js), the   *)
(* user and product controllers, and the requests in flight against them.  *)
(*                                                                         *)
(* A request handler is an async function with two suspension points: the  *)
(* await of loadJsonData and the await of saveJsonData.  Everything        *)
(* between the two runs without yielding, so a handler is two steps: the   *)
(* load step (read the file, find, mutate, serialise, issue the write) and *)
(* the save step (the write lands, the response is sent).                  *)
(***************************************************************************)
EXTENDS Integers, Sequences, FiniteSets, TLC

VARIABLES
  files,    \* file name -> the JSON document stored under src/data
  clients,  \* client -> its request: where the handler stands, what it got
  issued,   \* the largest integer id a createProduct has answered with
  writer,   \* file name -> the client whose write landed last (0: none)
  traffic,  \* the resource the clients of this run call
  env       \* process.env.NODE_ENV ("": not set)

vars == <<files, clients, issued, writer, traffic, env>>

----------------------------------------------------------------------------
(* Bounds of the model.                                                    *)

\* Longest collection a create is let to extend.
MaxLen == 3

\* Largest integer id a product create is let to assign.
MaxId == 3

----------------------------------------------------------------------------
(* JavaScript values, as <<tag, n>>.                                       *)
(*   <<"num", n>>      the number n                                        *)
(*   <<"dec", n>>      the string that is the decimal text of n ("1")      *)
(*   <<"dectail", n>>  the string of n's digits followed by letters ("1abc")*)
(*   <<"txt", k>>      the k-th non-empty string that starts with no digit *)
(*   <<"empty", 0>>    the string ""                                       *)
(*   <<"null", 0>>, <<"nan", 0>>, <<"absent", 0>> (undefined / no field)   *)

Num(n) == <<"num", n>>
Dec(n) == <<"dec", n>>
DecTail(n) == <<"dectail", n>>
Txt(k) == <<"txt", k>>
Empty == <<"empty", 0>>
Null == <<"null", 0>>
NaN == <<"nan", 0>>
Absent == <<"absent", 0>>

IsString(v) == v[1] \in {"dec", "dectail", "txt", "empty"}
IsInteger(v) == v[1] = "num"

\* JavaScript truthiness, as `||` tests it.
Truthy(v) ==
  CASE v[1] = "num" -> v[2] # 0
    [] v[1] \in {"empty", "null", "nan", "absent"} -> FALSE
    [] OTHER -> TRUE

\* a === b
\* A slip: a == b, under which a number equals the string that spells it.
LooseEq(a, b) ==
  /\ a # NaN /\ b # NaN
  /\ \/ a = b
     \/ {a[1], b[1]} = {"num", "dec"} /\ a[2] = b[2]

\* a === b
StrictEq(a, b) == a = b /\ a # NaN

\* Number(v), the coercion Math.max applies to each argument.
ToNumber(v) ==
  CASE v[1] = "num" -> v
    [] v[1] = "dec" -> Num(v[2])
    [] v[1] \in {"empty", "null"} -> Num(0)
    [] OTHER -> NaN

\* parseInt(s) of a string s.
ParseInt(s) ==
  CASE s[1] \in {"dec", "dectail"} -> Num(s[2])
    [] OTHER -> NaN

\* parseFloat(s) of a string s.
ParseFloat(s) ==
  CASE s[1] \in {"dec", "dectail"} -> Num(s[2])
    [] OTHER -> NaN

\* A slip: a > b in the place of a >= b.
Greater(a, b) ==
  /\ ToNumber(a) # NaN /\ ToNumber(b) # NaN
  /\ ToNumber(a)[2] > ToNumber(b)[2]

\* a >= b, both sides coerced to numbers: false as soon as one is NaN.
GreaterOrEqual(a, b) ==
  /\ ToNumber(a) # NaN /\ ToNumber(b) # NaN
  /\ ToNumber(a)[2] >= ToNumber(b)[2]

\* a <= b
LessOrEqual(a, b) ==
  /\ ToNumber(a) # NaN /\ ToNumber(b) # NaN
  /\ ToNumber(a)[2] <= ToNumber(b)[2]

\* What JSON.stringify writes for a value: NaN becomes null, an undefined
\* field is left out.
JsonValue(v) == IF v = NaN THEN Null ELSE v

----------------------------------------------------------------------------
(* Records: open mappings, here over the fields id and name, and the two   *)
(* fields the product filters read, price and category.                   *)

Fields == {"id", "name", "price", "category"}

NoBody == [f \in Fields |-> Absent]

\* { ...a, ...b }
Merge(a, b) == [f \in Fields |-> IF b[f] # Absent THEN b[f] ELSE a[f]]

\* { id: v, ...b }
IdThen(v, b) == Merge([NoBody EXCEPT !.id = v], b)

\* { ...a, ...b, id: v }
MergeKeepId(a, b, v) == [Merge(a, b) EXCEPT !.id = v]

StringifyRecord(r) == [f \in Fields |-> JsonValue(r[f])]

\* JSON.stringify(data, null, 2) of a sequence of records.
Stringify(data) == [i \in 1..Len(data) |-> StringifyRecord(data[i])]

\* JSON.parse of a document written by Stringify.
Parse(doc) == [i \in 1..Len(doc) |-> [f \in Fields |-> doc[i][f]]]

\* A slip: users.splice(i), which cuts the rest of the array off too.
RemoveFrom(s, i) == [j \in 1..(i - 1) |-> s[j]]

\* users.splice(i, 1) leaves this behind.
RemoveAt(s, i) == [j \in 1..(Len(s) - 1) |-> IF j < i THEN s[j] ELSE s[j + 1]]

\* A slip: findLastIndex in the place of findIndex.
FindLastIndex(s, v) ==
  IF \E i \in 1..Len(s) : s[i].id = v /\ s[i].id # NaN
  THEN CHOOSE i \in 1..Len(s) :
         /\ s[i].id = v /\ s[i].id # NaN
         /\ \A j \in (i + 1)..Len(s) : ~(s[j].id = v /\ s[j].id # NaN)
  ELSE 0

\* findIndex(r => r.id === v), 0 for JavaScript's -1.
FindIndex(s, v) ==
  IF \E i \in 1..Len(s) : StrictEq(s[i].id, v)
  THEN CHOOSE i \in 1..Len(s) :
         /\ StrictEq(s[i].id, v)
         /\ \A j \in 1..(i - 1) : ~StrictEq(s[j].id, v)
  ELSE 0

Ids(s) == [i \in 1..Len(s) |-> s[i].id]

RECURSIVE MaxOf(_)
MaxOf(ns) ==
  IF Len(ns) = 1 THEN ns[1]
  ELSE LET m == MaxOf(Tail(ns)) IN IF ns[1] > m THEN ns[1] ELSE m

\* Math.max(...ids) of a non-empty list: NaN as soon as one argument
\* coerces to NaN.
MathMax(ids) ==
  IF \E i \in 1..Len(ids) : ToNumber(ids[i]) = NaN
  THEN NaN
  ELSE Num(MaxOf([i \in 1..Len(ids) |-> ToNumber(ids[i])[2]]))

\* v + 1
PlusOne(v) == IF v = NaN THEN NaN ELSE Num(v[2] + 1)

\* A slip: products.length + 1 as the next id.
NextProductIdByLength(products) == <<"num", Len(products) + 1>>

\* products.length > 0 ? Math.max(...products.map(p => p.id)) + 1 : 1
NextProductId(products) ==
  IF Len(products) > 0 THEN PlusOne(MathMax(Ids(products))) ELSE Num(1)

\* The results generateRandomId can give: hex strings.
GeneratedIds == {Txt(3), Txt(4)}

----------------------------------------------------------------------------
(* The requests clients send.                                              *)

UsersFile == "users.json"
ProductsFile == "products.json"
Files == {UsersFile, ProductsFile}

Clients == {1, 2}

\* The name field of a body: left out, or a name no initial record has.
BodyNames == {Absent, Txt(2)}

\* JSON bodies of user requests: no id, a string id, or the number 0 (an
\* id that is neither a string nor truthy).
UserBodies ==
  [id : {Absent, Dec(1), Num(0)}, name : BodyNames,
   price : {Absent}, category : {Absent}]

\* JSON bodies of product requests: no id, an integer id, or a string id.
ProductBodies ==
  [id : {Absent, Num(1), Txt(1)}, name : BodyNames,
   price : {Absent}, category : {Absent}]

\* Bodies that carry no id.
PlainBodies ==
  [id : {Absent}, name : BodyNames, price : {Absent}, category : {Absent}]

\* Bodies of user requests whose id is the string "1" or the number 1.
ExactBodies ==
  [id : {Dec(1), Num(1)}, name : BodyNames, price : {Absent}, category : {Absent}]

\* {name: <new name>}
RenameBody == [NoBody EXCEPT !.name = Txt(2)]

\* req.query of GET /api/v1/products: each parameter left out, empty, or a
\* string; the price bounds are decimal numbers, a number followed by
\* letters, or no number at all.
Categories == {Txt(1), Txt(2)}
PriceBounds == {Absent, Empty, Dec(1), Dec(2), DecTail(2), Txt(1)}
ProductQueries ==
  [category : {Absent, Empty} \cup Categories,
   minPrice : PriceBounds, maxPrice : PriceBounds]

\* req.params.id: always a non-empty string.
UserParams == {Dec(1), Txt(3)}
ProductParams == {Dec(1), Dec(2), Txt(1), DecTail(1)}

----------------------------------------------------------------------------
(* A client's request.  loaded, idx and data record what the handler read, *)
(* matched and handed to saveJsonData; via/status/message/rec/list are the *)
(* outcome: via = "res" a response sent with res.json, via = "next" an     *)
(* error handed to next (status 0: no statusCode set).  error is the       *)
(* response the error handler made of that error, env the NODE_ENV it read.*)
(* loads and saves count the calls of loadJsonData and saveJsonData,       *)
(* responses and nexts the responses sent by the handler and its calls of  *)
(* next.                                                                   *)

\* req.query of a request without query string.
NoQuery == [category |-> Absent, minPrice |-> Absent, maxPrice |-> Absent]

\* req.params of a request that is none for an image.
NoParams == [label |-> Absent, width |-> Absent, height |-> Absent]

\* No error response: no status sent, no body field.
NoError ==
  [http |-> 0, keys |-> {}, status |-> "", statusCode |-> 0, message |-> ""]

Idle ==
  [pc |-> "idle", op |-> "", file |-> "", id |-> Absent, body |-> NoBody,
   loaded |-> <<>>, idx |-> 0, data |-> <<>>, saved |-> FALSE,
   via |-> "none", status |-> 0, message |-> "", rec |-> NoBody, list |-> <<>>,
   query |-> NoQuery, results |-> 0, arg |-> <<>>, method |-> "", url |-> <<>>,
   params |-> NoParams, contentType |-> "", failedAt |-> "",
   loads |-> 0, saves |-> 0, responses |-> 0, nexts |-> 0,
   env |-> "", error |-> NoError]

Request(op, file, id, body) ==
  [Idle EXCEPT !.op = op, !.file = file, !.id = id, !.body = body]

\* const error = new Error(message); error.statusCode = status; next(error)
Failed(r, status, message) ==
  [r EXCEPT !.pc = "done", !.via = "next", !.status = status,
            !.message = message, !.nexts = @ + 1]

\* res.status(status).json({status: 'success', data: {...: rec}})
Sent(r, status, rec) ==
  [r EXCEPT !.pc = "done", !.via = "res", !.status = status,
            !.rec = StringifyRecord(rec), !.responses = @ + 1]

\* res.json({status: 'success', results: list.length, data: {...: list}})
SentList(r, list) ==
  [r EXCEPT !.pc = "done", !.via = "res", !.status = 200,
            !.results = Len(list), !.list = Stringify(list),
            !.responses = @ + 1]

\* await saveJsonData(file, data): the write is pending.  status and rec
\* are what the handler answers with once the write has resolved.
Saving(r, data, status, rec) ==
  [r EXCEPT !.pc = "saving", !.arg = data, !.data = Stringify(data),
            !.status = status, !.rec = StringifyRecord(rec), !.saves = @ + 1]

LoadError(file) == "Could not load data from " \o file
SaveError(file) == "Could not save data to " \o file

----------------------------------------------------------------------------
(* The error-handling middleware, the last of the application: next(error) *)
(* runs it at once, within the step that raised the error.                 *)

\* The values of process.env.NODE_ENV ("": not set).
NodeEnvs == {"development", "production", "test", ""}

\* A slip: the stack left out in production only.
ErrorHandlerStackUnlessProduction(err, nodeEnv) ==
  LET statusCode == IF err.statusCode # 0 THEN err.statusCode ELSE 500 IN
  [http |-> statusCode,
   keys |-> {"status", "statusCode", "message"} \cup
            (IF nodeEnv # "production" THEN {"stack"} ELSE {}),
   status |-> "error",
   statusCode |-> statusCode,
   message |-> IF err.message # "" THEN err.message ELSE "Internal server error"]

\* A slip: the message sent as it is, without the default.
ErrorHandlerNoDefault(err, nodeEnv) ==
  LET statusCode == IF err.statusCode # 0 THEN err.statusCode ELSE 500 IN
  [http |-> statusCode,
   keys |-> {"status", "statusCode", "message"} \cup
            (IF nodeEnv = "development" THEN {"stack"} ELSE {}),
   status |-> "error",
   statusCode |-> statusCode,
   message |-> err.message]

\* errorHandler(err, req, res, next): the status sent and the JSON body,
\* keys being the fields the body has.
ErrorHandler(err, nodeEnv) ==
  LET statusCode == IF err.statusCode # 0 THEN err.statusCode ELSE 500 IN
  [http |-> statusCode,
   keys |-> {"status", "statusCode", "message"} \cup
            (IF nodeEnv = "development" THEN {"stack"} ELSE {}),
   status |-> "error",
   statusCode |-> statusCode,
   message |-> IF err.message # "" THEN err.message ELSE "Internal server error"]

\* The outcome r of a handler as the client gets it: an error handed to
\* next goes through errorHandler, which reads NODE_ENV as it runs.
Boundary(r) ==
  IF r.via = "next"
  THEN [r EXCEPT !.env = env,
                 !.error = ErrorHandler([statusCode |-> r.status,
                                         message |-> r.message], env)]
  ELSE r

\* The handler's outcome r becomes the state of client c's request.
Outcome(c, r) == clients' = [clients EXCEPT ![c] = Boundary(r)]

----------------------------------------------------------------------------
(* userController.js: each handler from the point where its                *)
(* loadJsonData('users.json') has resolved with users.                     *)

\* A slip: the list answered in reverse order.
GetAllUsersReversed(r, users) ==
  SentList([r EXCEPT !.loaded = users],
           [i \in 1..Len(users) |-> users[Len(users) + 1 - i]])

GetAllUsers(r, users) == SentList([r EXCEPT !.loaded = users], users)

\* A slip: next(error) without its return, so that res.json follows it.
GetUserByIdNoReturn(r, users) ==
  LET i == FindIndex(users, r.id)
      l == [r EXCEPT !.loaded = users, !.idx = i]
  IN IF i = 0
     THEN [Failed(l, 404, "User not found") EXCEPT !.responses = @ + 1]
     ELSE Sent(l, 200, users[i])

\* A slip: the 404 answered by the controller itself.
GetUserByIdAnswering(r, users) ==
  LET i == FindIndex(users, r.id)
      l == [r EXCEPT !.loaded = users, !.idx = i]
  IN IF i = 0
     THEN [l EXCEPT !.pc = "done", !.via = "res", !.status = 404,
                    !.responses = @ + 1,
                    !.error = [http |-> 404, keys |-> {"status", "message"},
                               status |-> "error", statusCode |-> 0,
                               message |-> "User not found"]]
     ELSE Sent(l, 200, users[i])

GetUserById(r, users) ==
  LET i == FindIndex(users, r.id)
      l == [r EXCEPT !.loaded = users, !.idx = i]
  IN IF i = 0 THEN Failed(l, 404, "User not found") ELSE Sent(l, 200, users[i])

\* A slip: { id: req.body.id, ...req.body }, no id generated.
NewUserBodyIdOnly(body, generated) == IdThen(body.id, body)

\* A slip: { ...req.body, id: req.body.id || generateRandomId() }
NewUserIdLast(body, generated) ==
  [Merge(NoBody, body) EXCEPT !.id = IF Truthy(body.id) THEN body.id ELSE generated]

\* { id: req.body.id || generateRandomId(), ...req.body }
NewUser(body, generated) ==
  IdThen(IF Truthy(body.id) THEN body.id ELSE generated, body)

CreateUser(r, users, generated) ==
  LET newUser == NewUser(r.body, generated) IN
  Saving([r EXCEPT !.loaded = users], Append(users, newUser), 201, newUser)

\* A slip: { ...users[userIndex], ...req.body }, the id not set back.
UpdatedRecordBodyWins(old, body) == Merge(old, body)

\* { ...users[userIndex], ...req.body, id: users[userIndex].id }
UpdatedRecord(old, body) == MergeKeepId(old, body, old.id)

UpdateUser(r, users) ==
  LET userIndex == FindIndex(users, r.id)
      l == [r EXCEPT !.loaded = users, !.idx = userIndex]
      updated == UpdatedRecord(users[userIndex], r.body)
  IN IF userIndex = 0 THEN Failed(l, 404, "User not found")
     ELSE Saving(l, [users EXCEPT ![userIndex] = updated], 200, updated)

\* A slip: deleteUser without its check of userIndex === -1, so that
\* splice(-1, 1) takes the last record.
DeleteUserUnchecked(r, users) ==
  LET i == FindIndex(users, r.id)
      k == IF i = 0 THEN Len(users) ELSE i
      l == [r EXCEPT !.loaded = users, !.idx = k]
  IN IF users = <<>> THEN Saving(l, users, 200, NoBody)
     ELSE Saving(l, RemoveAt(users, k), 200, users[k])

DeleteUser(r, users) ==
  LET userIndex == FindIndex(users, r.id)
      l == [r EXCEPT !.loaded = users, !.idx = userIndex]
  IN IF userIndex = 0 THEN Failed(l, 404, "User not found")
     ELSE Saving(l, RemoveAt(users, userIndex), 200, users[userIndex])

----------------------------------------------------------------------------
(* productController.js, likewise.                                         *)

\* products.findIndex(p => p.id === parseInt(req.params.id))
ProductIndex(products, param) == FindIndex(products, ParseInt(param))

\* The three filters of getAllProducts, one after the other.
Filtered(products, query) ==
  LET byCategory ==
        IF Truthy(query.category)
        THEN SelectSeq(products, LAMBDA p : StrictEq(p.category, query.category))
        ELSE products
      byMinPrice ==
        IF Truthy(query.minPrice)
        THEN SelectSeq(byCategory,
                       LAMBDA p : GreaterOrEqual(p.price, ParseFloat(query.minPrice)))
        ELSE byCategory
  IN IF Truthy(query.maxPrice)
     THEN SelectSeq(byMinPrice,
                    LAMBDA p : LessOrEqual(p.price, ParseFloat(query.maxPrice)))
     ELSE byMinPrice

\* A slip: a price filter whose value parses to NaN is passed over.
GetAllProductsParsedOnly(r, products) ==
  LET parsed(v) == IF ParseFloat(v) = NaN THEN Absent ELSE v
      query == [r.query EXCEPT !.minPrice = parsed(r.query.minPrice),
                               !.maxPrice = parsed(r.query.maxPrice)]
  IN SentList([r EXCEPT !.loaded = products], Filtered(products, query))

GetAllProducts(r, products) ==
  SentList([r EXCEPT !.loaded = products], Filtered(products, r.query))

GetProductById(r, products) ==
  LET i == ProductIndex(products, r.id)
      l == [r EXCEPT !.loaded = products, !.idx = i]
  IN IF i = 0 THEN Failed(l, 404, "Product not found")
     ELSE Sent(l, 200, products[i])

\* { id: <next id>, ...req.body }
NewProduct(products, body) == IdThen(NextProductId(products), body)

CreateProduct(r, products) ==
  LET newProduct == NewProduct(products, r.body) IN
  Saving([r EXCEPT !.loaded = products], Append(products, newProduct),
         201, newProduct)

UpdateProduct(r, products) ==
  LET productIndex == ProductIndex(products, r.id)
      l == [r EXCEPT !.loaded = products, !.idx = productIndex]
      updated == UpdatedRecord(products[productIndex], r.body)
  IN IF productIndex = 0 THEN Failed(l, 404, "Product not found")
     ELSE Saving(l, [products EXCEPT ![productIndex] = updated], 200, updated)

\* A slip: products.filter(p => p.id !== id) in place of the splice, so
\* that every record of the id goes.
DeleteProductFiltering(r, products) ==
  LET productIndex == ProductIndex(products, r.id)
      l == [r EXCEPT !.loaded = products, !.idx = productIndex]
  IN IF productIndex = 0 THEN Failed(l, 404, "Product not found")
     ELSE Saving(l, SelectSeq(products, LAMBDA p : ~StrictEq(p.id, ParseInt(r.id))),
                 200, products[productIndex])

DeleteProduct(r, products) ==
  LET productIndex == ProductIndex(products, r.id)
      l == [r EXCEPT !.loaded = products, !.idx = productIndex]
  IN IF productIndex = 0 THEN Failed(l, 404, "Product not found")
     ELSE Saving(l, RemoveAt(products, productIndex), 200, products[productIndex])

----------------------------------------------------------------------------
(* The load step of each handler: the request arrives, loadJsonData        *)
(* resolves or rejects, and the handler runs on to its next await or to    *)
(* its outcome.                                                            *)

\* A client sends a request to a resource when it has none outstanding and
\* the resource is the one the run calls ("all": the run calls any).
Ready(c, resource) == clients[c].pc = "idle" /\ traffic \in {resource, "all"}

\* The handler calls loadJsonData.
Load(r) == [r EXCEPT !.loads = @ + 1]

\* A slip: a collection kept in memory from the load of the request that
\* wrote the file last, and served to later requests in place of the file.
LoadCached(file) ==
  IF writer[file] # 0 /\ clients[writer[file]].file = file
     /\ clients[writer[file]].pc = "done"
  THEN clients[writer[file]].loaded
  ELSE Parse(files[file])

\* loadJsonData(file): JSON.parse of the file as it is now.
LoadJsonData(file) == Parse(files[file])

\* A slip: a handler that takes a file it cannot load for an empty
\* collection and answers with it.
LoadFailedAnswered(r) == SentList(r, <<>>)

\* throw new Error(`Could not load data from ${filename}`), and the
\* handler's catch (error) { next(error) }.
LoadFailed(r) == Failed(r, 0, LoadError(r.file))

\* loadJsonData rejects.
LoadRejected(c, r) ==
  /\ Outcome(c, LoadFailed([r EXCEPT !.failedAt = "load"]))
  /\ UNCHANGED <<files, issued, writer, traffic, env>>

\* The handler has run on to r.
RunsTo(c, r) ==
  /\ Outcome(c, r)
  /\ UNCHANGED <<files, issued, writer, traffic, env>>

\* The model's cap on creates: collections and integer ids stay bounded.
CreateInBounds(r) ==
  /\ Len(r.data) <= MaxLen
  /\ IsInteger(r.rec.id) => r.rec.id[2] <= MaxId

getAllUsers(c) ==
  /\ Ready(c, "users")
  /\ LET r == Load(Request("getAllUsers", UsersFile, Absent, NoBody)) IN
     \/ LoadRejected(c, r)
     \/ RunsTo(c, GetAllUsers(r, LoadJsonData(UsersFile)))

getUserById(c, Params) ==
  /\ Ready(c, "users")
  /\ \E id \in Params :
       LET r == Load(Request("getUserById", UsersFile, id, NoBody)) IN
       \/ LoadRejected(c, r)
       \/ RunsTo(c, GetUserById(r, LoadJsonData(UsersFile)))

createUser(c, Bodies) ==
  /\ Ready(c, "users")
  /\ \E body \in Bodies :
       LET r == Load(Request("createUser", UsersFile, Absent, body)) IN
       \/ LoadRejected(c, r)
       \/ \E generated \in GeneratedIds :
            LET n == CreateUser(r, LoadJsonData(UsersFile), generated) IN
            CreateInBounds(n) /\ RunsTo(c, n)

updateUser(c, Params, Bodies) ==
  /\ Ready(c, "users")
  /\ \E id \in Params, body \in Bodies :
       LET r == Load(Request("updateUser", UsersFile, id, body)) IN
       \/ LoadRejected(c, r)
       \/ RunsTo(c, UpdateUser(r, LoadJsonData(UsersFile)))

deleteUser(c, Params) ==
  /\ Ready(c, "users")
  /\ \E id \in Params :
       LET r == Load(Request("deleteUser", UsersFile, id, NoBody)) IN
       \/ LoadRejected(c, r)
       \/ RunsTo(c, DeleteUser(r, LoadJsonData(UsersFile)))

getAllProducts(c, Queries) ==
  /\ Ready(c, "products")
  /\ \E query \in Queries :
       LET r == [Load(Request("getAllProducts", ProductsFile, Absent, NoBody))
                   EXCEPT !.query = query]
       IN
       \/ LoadRejected(c, r)
       \/ RunsTo(c, GetAllProducts(r, LoadJsonData(ProductsFile)))

getProductById(c, Params) ==
  /\ Ready(c, "products")
  /\ \E id \in Params :
       LET r == Load(Request("getProductById", ProductsFile, id, NoBody)) IN
       \/ LoadRejected(c, r)
       \/ RunsTo(c, GetProductById(r, LoadJsonData(ProductsFile)))

createProduct(c, Bodies) ==
  /\ Ready(c, "products")
  /\ \E body \in Bodies :
       LET r == Load(Request("createProduct", ProductsFile, Absent, body))
           n == CreateProduct(r, LoadJsonData(ProductsFile))
       IN
       \/ LoadRejected(c, r)
       \/ CreateInBounds(n) /\ RunsTo(c, n)

updateProduct(c, Params, Bodies) ==
  /\ Ready(c, "products")
  /\ \E id \in Params, body \in Bodies :
       LET r == Load(Request("updateProduct", ProductsFile, id, body)) IN
       \/ LoadRejected(c, r)
       \/ RunsTo(c, UpdateProduct(r, LoadJsonData(ProductsFile)))

deleteProduct(c, Params) ==
  /\ Ready(c, "products")
  /\ \E id \in Params :
       LET r == Load(Request("deleteProduct", ProductsFile, id, NoBody)) IN
       \/ LoadRejected(c, r)
       \/ RunsTo(c, DeleteProduct(r, LoadJsonData(ProductsFile)))

----------------------------------------------------------------------------
(* dataLoader.js: the pending write of saveJsonData lands or fails, and    *)
(* the handler goes on from its await.                                     *)

\* A slip: a write that keeps the records of the file that the new text
\* has not, instead of replacing the file.
WriteFileMerging(fs, file, text) ==
  [fs EXCEPT ![file] =
     text \o SelectSeq(fs[file], LAMBDA x : \A i \in 1..Len(text) : text[i].id # x.id)]

\* A slip: one file path for every name, so that a write lands in both
\* collections.
WriteFileEverywhere(fs, file, text) == [f \in Files |-> text]

\* fs.writeFile(filePath, JSON.stringify(data, null, 2)): the whole file is
\* replaced.
WriteFile(fs, file, text) == [fs EXCEPT ![file] = text]

\* The largest integer id a createProduct has answered with, r included.
Issue(r) ==
  IF r.op = "createProduct" /\ IsInteger(r.rec.id) /\ r.rec.id[2] > issued
  THEN r.rec.id[2] ELSE issued

\* The handler after its await saveJsonData: the success response.
Answered(r) ==
  [r EXCEPT !.pc = "done", !.via = "res", !.saved = TRUE, !.responses = @ + 1]

\* A slip: saveJsonData called without await, the response sent whatever
\* becomes of the write.
SaveFailedAnswered(r) ==
  [r EXCEPT !.pc = "done", !.via = "res", !.responses = @ + 1]

\* throw new Error(`Could not save data to ${filename}`), and the
\* handler's catch (error) { next(error) }.
SaveFailed(r) ==
  [r EXCEPT !.pc = "done", !.via = "next", !.status = 0,
            !.message = SaveError(r.file), !.rec = NoBody, !.nexts = @ + 1]

saveResolved(c) ==
  /\ clients[c].pc = "saving"
  /\ files' = WriteFile(files, clients[c].file, clients[c].data)
  /\ clients' = [clients EXCEPT ![c] = Answered(clients[c])]
  /\ issued' = Issue(clients[c])
  /\ writer' = [writer EXCEPT ![clients[c].file] = c]
  /\ UNCHANGED <<traffic, env>>

\* A failed write is taken to leave the file as it was.
saveRejected(c) ==
  /\ clients[c].pc = "saving"
  /\ Outcome(c, SaveFailed([clients[c] EXCEPT !.failedAt = "save"]))
  /\ UNCHANGED <<files, issued, writer, traffic, env>>

\* The client has its answer and is free to send its next request.
received(c) ==
  /\ clients[c].pc = "done"
  /\ clients' = [clients EXCEPT ![c] = Idle]
  /\ UNCHANGED <<files, issued, writer, traffic, env>>

----------------------------------------------------------------------------
(* app.js: the routes of the application.  A URL is the sequence of its    *)
(* path segments.                                                          *)

Methods == {"GET", "POST", "PUT", "PATCH", "DELETE"}

Urls ==
  {<<>>, <<"api", "v1">>, <<"api", "non-existent-route">>,
   <<"api", "v1", "users">>, <<"api", "v1", "users", "1">>,
   <<"api", "v1", "users", "1", "orders">>,
   <<"api", "v1", "products">>, <<"api", "v1", "products", "1">>,
   <<"api", "dummyImage", "Test", "800", "300">>,
   <<"api", "dummyImage", "Test", "invalid", "300">>}

\* req.originalUrl
RECURSIVE OriginalUrl(_)
OriginalUrl(url) ==
  IF Len(url) = 0 THEN "/"
  ELSE IF Len(url) = 1 THEN "/" \o url[1]
  ELSE "/" \o url[1] \o OriginalUrl(Tail(url))

\* router.route('/').get(all).post(create) and
\* router.route('/:id').get(byId).patch(update).delete(remove): the handler
\* of a resource's router for the rest of the path, "" when it has none.
RouterRoute(method, rest, all, create, byId, update, remove) ==
  CASE Len(rest) = 0 /\ method = "GET" -> all
    [] Len(rest) = 0 /\ method = "POST" -> create
    [] Len(rest) = 1 /\ method = "GET" -> byId
    [] Len(rest) = 1 /\ method = "PATCH" -> update
    [] Len(rest) = 1 /\ method = "DELETE" -> remove
    [] OTHER -> ""

\* The routes of app.js in their order: the first that takes the request.
Route(method, url) ==
  LET under(prefix) == Len(url) >= Len(prefix) /\ SubSeq(url, 1, Len(prefix)) = prefix
      rest(prefix) == SubSeq(url, Len(prefix) + 1, Len(url))
      users == IF under(<<"api", "v1", "users">>)
               THEN RouterRoute(method, rest(<<"api", "v1", "users">>),
                                "getAllUsers", "createUser", "getUserById",
                                "updateUser", "deleteUser")
               ELSE ""
      products == IF under(<<"api", "v1", "products">>)
                  THEN RouterRoute(method, rest(<<"api", "v1", "products">>),
                                   "getAllProducts", "createProduct",
                                   "getProductById", "updateProduct",
                                   "deleteProduct")
                  ELSE ""
  IN CASE users # "" -> users
       [] products # "" -> products
       [] method = "GET" /\ url = <<>> -> "welcome"
       [] method = "GET" /\ url = <<"api", "v1">> -> "apiInfo"
       [] OTHER -> "notFound"

\* res.json({status: 'success', message: ...}) of the two routes of app.js
\* that answer by themselves.
Welcomed(r, message) ==
  [r EXCEPT !.pc = "done", !.via = "res", !.status = 200, !.message = message,
            !.responses = @ + 1]

\* A slip: a 404 that does not name the URL.
RouteNotFoundUnnamed(r) == Failed(r, 404, "Could not find the route on this server!")

\* app.all('*'): the error for a request no route has taken.
RouteNotFound(r) ==
  Failed(r, 404, "Could not find " \o OriginalUrl(r.url) \o " on this server!")

\* A request to the application that no controller gets: the routers hand
\* the others to the handlers above.
app(c, MethodSet, UrlSet) ==
  /\ Ready(c, "app")
  /\ \E method \in MethodSet, url \in UrlSet :
       LET route == Route(method, url)
           r == [Request(route, "", Absent, NoBody)
                   EXCEPT !.method = method, !.url = url]
       IN
       /\ route \in {"welcome", "apiInfo", "notFound"}
       /\ CASE route = "welcome" -> RunsTo(c, Welcomed(r, "Welcome to the API"))
            [] route = "apiInfo" -> RunsTo(c, Welcomed(r, "API v1"))
            [] OTHER -> RunsTo(c, RouteNotFound(r))

----------------------------------------------------------------------------
(* dummyImageController.js, as its router calls it for                     *)
(* GET /:label/:width/:height.                                             *)

\* req.params.width and req.params.height: "0", "-1", "2", "2px", "invalid".
Dimensions == {Dec(0), Dec(-1), Dec(2), DecTail(2), Txt(1)}

\* res.status(400).json({status: 'error', message: 'Invalid image dimensions'})
InvalidDimensions(r) ==
  [r EXCEPT !.pc = "done", !.via = "res", !.status = 400, !.responses = @ + 1,
            !.error = [http |-> 400, keys |-> {"status", "message"},
                       status |-> "error", statusCode |-> 0,
                       message |-> "Invalid image dimensions"]]

\* res.setHeader('Content-Type', 'image/png'); canvas.createPNGStream().pipe(res)
ImageSent(r) ==
  [r EXCEPT !.pc = "done", !.via = "res", !.status = 200,
            !.contentType = "image/png", !.responses = @ + 1]

\* Whether the dimensions are refused: isNaN(...) || ... <= 0
Refused(width, height) ==
  LET imageWidth == ParseInt(width)
      imageHeight == ParseInt(height)
  IN \/ imageWidth = NaN \/ imageHeight = NaN
     \/ imageWidth[2] <= 0 \/ imageHeight[2] <= 0

generateDummyImage(c, DimensionSet) ==
  /\ Ready(c, "dummyImage")
  /\ \E width \in DimensionSet, height \in DimensionSet :
       LET r == [Request("generateDummyImage", "", Absent, NoBody)
                   EXCEPT !.method = "GET",
                          !.params = [label |-> Txt(1), width |-> width,
                                      height |-> height]]
       IN
       IF Refused(width, height)
       THEN RunsTo(c, InvalidDimensions(r))
       ELSE \/ RunsTo(c, ImageSent(r))
            \/ RunsTo(c, Failed(r, 0, "canvas error"))

----------------------------------------------------------------------------
(* The error handler called with any error, and the configuration set      *)
(* anew, as its unit test does.                                            *)

\* Errors: with or without statusCode (0: none), with or without message.
Errors ==
  [statusCode : {0, 400, 404, 500},
   message : {"", "Test error message", "User not found"}]

errorHandler(c, ErrorSet) ==
  /\ Ready(c, "errors")
  /\ \E err \in ErrorSet :
       RunsTo(c, Failed(Request("errorHandler", "", Absent, NoBody),
                        err.statusCode, err.message))

\* process.env.NODE_ENV = nodeEnv
setNodeEnv(nodeEnv) ==
  /\ env # nodeEnv
  /\ env' = nodeEnv
  /\ UNCHANGED <<files, clients, issued, writer, traffic>>

----------------------------------------------------------------------------
(* The service.                                                            *)

\* The data files the service starts with: users with string ids, products
\* with integer ids.
InitialUsers == {<<>>, <<[NoBody EXCEPT !.id = Dec(1), !.name = Txt(1)]>>}
InitialProducts == {<<>>, <<[NoBody EXCEPT !.id = Num(1), !.name = Txt(1)]>>}

Init ==
  /\ files \in [Files -> InitialUsers \cup InitialProducts]
  /\ files[UsersFile] \in InitialUsers
  /\ files[ProductsFile] \in InitialProducts
  /\ clients = [c \in Clients |-> Idle]
  /\ issued = 0
  /\ writer = [f \in Files |-> 0]
  /\ traffic \in {"users", "products"}
  /\ env = "production"

\* Requests to /api/v1/users from client c, with path ids from Params and
\* bodies from Bodies.
UserRequest(c, Params, Bodies) ==
  \/ getAllUsers(c)
  \/ getUserById(c, Params)
  \/ createUser(c, Bodies)
  \/ updateUser(c, Params, Bodies)
  \/ deleteUser(c, Params)

\* Requests to /api/v1/products from client c.
ProductRequest(c, Params, Bodies) ==
  \/ getAllProducts(c, {NoQuery})
  \/ getProductById(c, Params)
  \/ createProduct(c, Bodies)
  \/ updateProduct(c, Params, Bodies)
  \/ deleteProduct(c, Params)

\* What follows a request of client c.
Completion(c) == saveResolved(c) \/ saveRejected(c) \/ received(c)

\* One client, one request at a time, any path id and body.
Next ==
  \/ UserRequest(1, UserParams, UserBodies)
  \/ ProductRequest(1, ProductParams, ProductBodies)
  \/ Completion(1)

Spec == Init /\ [][Next]_vars

\* One client, one request at a time; product bodies carry no id, so that
\* the server alone numbers the products.
NextPlain ==
  \/ UserRequest(1, UserParams, UserBodies)
  \/ ProductRequest(1, ProductParams, PlainBodies)
  \/ Completion(1)

SpecPlain == Init /\ [][NextPlain]_vars

\* The records a catalogue is made of: a price and a category each, or
\* neither.
Priced ==
  {[NoBody EXCEPT !.price = p, !.category = k] :
     p \in {Num(1), Num(2), Num(3)}, k \in Categories} \cup {NoBody}

\* products.json as a catalogue: priced records numbered from 1.
Catalogues ==
  UNION {{[i \in 1..n |-> [s[i] EXCEPT !.id = Num(i)]] : s \in [1..n -> Priced]} :
           n \in 0..MaxLen}

InitCatalogue ==
  /\ files \in [Files -> {<<>>} \cup Catalogues]
  /\ files[UsersFile] = <<>>
  /\ files[ProductsFile] \in Catalogues
  /\ clients = [c \in Clients |-> Idle]
  /\ issued = 0
  /\ writer = [f \in Files |-> 0]
  /\ traffic = "products"
  /\ env = "production"

\* The application as a whole under any configuration: one client calls a
\* resource by one id, the routes of app.js, the image controller, or the
\* error handler.
InitBoundary ==
  /\ files \in [Files -> InitialUsers \cup InitialProducts]
  /\ files[UsersFile] \in InitialUsers
  /\ files[ProductsFile] \in InitialProducts
  /\ clients = [c \in Clients |-> Idle]
  /\ issued = 0
  /\ writer = [f \in Files |-> 0]
  /\ traffic \in {"users", "products", "app", "dummyImage", "errors"}
  /\ env \in NodeEnvs

NextBoundary ==
  \/ UserRequest(1, {Dec(1)}, {RenameBody})
  \/ ProductRequest(1, {Dec(1)}, {RenameBody})
  \/ Completion(1)
  \/ app(1, Methods, Urls)
  \/ generateDummyImage(1, Dimensions)
  \/ errorHandler(1, Errors)
  \/ \E nodeEnv \in NodeEnvs : setNodeEnv(nodeEnv)

SpecBoundary == InitBoundary /\ [][NextBoundary]_vars

\* One client, one request at a time; user ids are the string "1" and the
\* number 1.
NextExact ==
  \/ UserRequest(1, {Dec(1)}, ExactBodies)
  \/ ProductRequest(1, {Dec(1)}, ProductBodies)
  \/ Completion(1)

SpecExact == Init /\ [][NextExact]_vars

\* Both resources are served in one run.
InitMixed ==
  /\ files \in [Files -> InitialUsers \cup InitialProducts]
  /\ files[UsersFile] \in InitialUsers
  /\ files[ProductsFile] \in InitialProducts
  /\ clients = [c \in Clients |-> Idle]
  /\ issued = 0
  /\ writer = [f \in Files |-> 0]
  /\ traffic = "all"
  /\ env = "production"

\* The requests of one client to the users and of another to the products,
\* interleaved.
NextMixed ==
  \/ UserRequest(1, {Dec(1)}, {RenameBody})
  \/ ProductRequest(2, {Dec(1)}, {RenameBody})
  \/ \E c \in Clients : Completion(c)

SpecMixed == InitMixed /\ [][NextMixed]_vars

\* One client, one request at a time; every save that has started ends,
\* resolved or rejected.
NextLive ==
  \/ UserRequest(1, {Dec(1)}, {RenameBody})
  \/ ProductRequest(1, {Dec(1)}, {RenameBody})
  \/ Completion(1)

SpecLive ==
  Init /\ [][NextLive]_vars /\ WF_vars(saveResolved(1) \/ saveRejected(1))

\* One client lists the catalogue under any query.
NextFilter == getAllProducts(1, ProductQueries) \/ received(1)

SpecFilter == InitCatalogue /\ [][NextFilter]_vars

\* Concurrent clients: requests overlap at the awaits of load and save.
NextConcurrent ==
  \E c \in Clients :
    \/ UserRequest(c, {Dec(1)}, {RenameBody})
    \/ ProductRequest(c, {Dec(1)}, {RenameBody})
    \/ Completion(c)

SpecConcurrent == Init /\ [][NextConcurrent]_vars

----------------------------------------------------------------------------
(* What the claims speak of.                                               *)

Last(s) == s[Len(s)]

\* The clients whose request op has been answered with success after its
\* save.
Answer(ops) ==
  {c \in Clients : clients[c].op \in ops /\ clients[c].pc = "done" /\ clients[c].saved}

\* The clients whose request op has run past its load: the write is
\* pending or has landed.
PastLoad(ops) ==
  {c \in Clients : clients[c].op \in ops /\
     (clients[c].pc = "saving" \/ (clients[c].pc = "done" /\ clients[c].saved))}

AllIntegerIds(s) == \A i \in 1..Len(s) : IsInteger(s[i].id)

\* The largest of the integer ids of s, 0 when it has none.
LargestId(s) ==
  LET ns == {s[i].id[2] : i \in {j \in 1..Len(s) : IsInteger(s[j].id)}} IN
  IF ns = {} THEN 0 ELSE CHOOSE n \in ns : \A m \in ns : m <= n

\* 1 + max(existing ids), or 1 on an empty collection.
OnePlusMax(s) == Num(1 + LargestId(s))

\* The positions of s whose record the path id of request r selects.
Matches(r, s) ==
  {i \in 1..Len(s) :
     IF r.file = UsersFile THEN s[i].id = r.id
     ELSE IsInteger(s[i].id) /\ r.id \in {Dec(s[i].id[2]), DecTail(s[i].id[2])}}

\* What a getById with the path id of r answers on the file as it is now.
GetByIdNow(r) ==
  IF r.file = UsersFile
  THEN GetUserById(Request("getUserById", UsersFile, r.id, NoBody),
                   LoadJsonData(UsersFile))
  ELSE GetProductById(Request("getProductById", ProductsFile, r.id, NoBody),
                      LoadJsonData(ProductsFile))

IsNotFound(r) ==
  /\ r.via = "next"
  /\ r.status = 404
  /\ r.message = (IF r.file = UsersFile THEN "User not found" ELSE "Product not found")

----------------------------------------------------------------------------
(* C1 *)

\* C1: whatever the body, an id of its own included, the record that
\* createProduct appends, persists and answers with has the id
\* 1 + max(existing ids), or 1 when the collection is empty.
C1_CreateProductIgnoresBodyId ==
  \A c \in Answer({"createProduct"}) :
    LET r == clients[c] IN
    AllIntegerIds(r.loaded) =>
      /\ r.rec.id = OnePlusMax(r.loaded)
      /\ Last(r.data).id = OnePlusMax(r.loaded)
      /\ Last(files[ProductsFile]).id = OnePlusMax(r.loaded)

----------------------------------------------------------------------------
(* C2 *)

\* Clients c and d have both loaded the same sequence of the same file,
\* both have been answered with success, and d's write landed last.
LostUpdateRace(c, d) ==
  /\ c # d
  /\ {c, d} \subseteq Answer({"createUser", "updateUser", "deleteUser",
                              "createProduct", "updateProduct", "deleteProduct"})
  /\ clients[c].file = clients[d].file
  /\ clients[c].loaded = clients[d].loaded
  /\ writer[clients[d].file] = d

\* C2: when two mutating requests on one collection both load the same
\* sequence and both succeed, the collection persisted is exactly the
\* sequence of the one that saved second.
C2_SecondSaveWins ==
  \A c, d \in Clients :
    LostUpdateRace(c, d) => files[clients[d].file] = clients[d].data

\* Two creates raced: both were answered 201, and the record of the first
\* is in the persisted collection no more.
C2_LostUpdateReached ==
  \E c, d \in Clients :
    /\ LostUpdateRace(c, d)
    /\ clients[c].op = "createUser" /\ clients[d].op = "createUser"
    /\ clients[c].status = 201 /\ clients[d].status = 201
    /\ clients[c].rec # clients[d].rec
    /\ \A i \in 1..Len(files[UsersFile]) : files[UsersFile][i] # clients[c].rec
    /\ Len(files[UsersFile]) = Len(clients[c].loaded) + 1

----------------------------------------------------------------------------
(* C3 *)

\* s without its k-th element, the others in their order.
Without(s, k) == SubSeq(s, 1, k - 1) \o SubSeq(s, k + 1, Len(s))

\* The first position the path id of r selects in s.
FirstMatch(r, s) == CHOOSE k \in Matches(r, s) : \A j \in Matches(r, s) : k <= j

\* A delete that no other write has followed: the file is as its save left it.
DeletedLast ==
  {c \in Answer({"deleteUser", "deleteProduct"}) :
     writer[clients[c].file] = c /\ Matches(clients[c], clients[c].loaded) # {}}

\* The delete answered with the record it removed, as it was, and persisted
\* the sequence without it.
RemovedOne(r) ==
  LET k == FirstMatch(r, r.loaded) IN
  /\ r.status = 200
  /\ r.rec = r.loaded[k]
  /\ files[r.file] = Without(r.loaded, k)
  /\ Len(files[r.file]) = Len(r.loaded) - 1

\* C3 as claimed: a delete of a present id answers with the removed record,
\* persists the sequence one shorter with the rest in order, and a
\* getById of that id then fails with 404.
C3_DeleteThenGetByIdFails ==
  \A c \in DeletedLast :
    RemovedOne(clients[c]) /\ IsNotFound(GetByIdNow(clients[c]))

\* C3 as amended: the delete answers with the removed record and persists
\* the sequence without it; a getById of that id then fails with 404 when
\* the id selected one record only, and otherwise answers with the next
\* record of that id.
C3_DeleteRemovesFirstMatch ==
  \A c \in DeletedLast :
    LET r == clients[c]
        ms == Matches(r, r.loaded)
    IN
    /\ RemovedOne(r)
    /\ Cardinality(ms) = 1 => IsNotFound(GetByIdNow(r))
    /\ Cardinality(ms) > 1 =>
         /\ GetByIdNow(r).via = "res"
         /\ GetByIdNow(r).rec = files[r.file][FirstMatch(r, files[r.file])]

\* A delete of the middle one of three records, the only one of its id.
C3_DeleteOfMiddleReached ==
  \E c \in DeletedLast :
    /\ Len(clients[c].loaded) = 3
    /\ Matches(clients[c], clients[c].loaded) = {2}
    /\ clients[c].loaded[1] # clients[c].loaded[3]

----------------------------------------------------------------------------
(* C4 *)

ByIdOps ==
  {"getUserById", "updateUser", "deleteUser",
   "getProductById", "updateProduct", "deleteProduct"}

\* The requests by id whose load resolved with a collection in which the
\* path id selects nothing.
Unmatched ==
  {c \in Clients :
     /\ clients[c].op \in ByIdOps
     /\ clients[c].message # LoadError(clients[c].file)
     /\ Matches(clients[c], clients[c].loaded) = {}}

\* C4: getById, update and delete of an id that no record of the loaded
\* collection has end with the 404 failure of the resource handed to next,
\* with no success response and no save: the file stays as loaded.
C4_AbsentIdIsNotFound ==
  \A c \in Unmatched :
    LET r == clients[c] IN
    /\ r.pc = "done"
    /\ IsNotFound(r)
    /\ ~r.saved
    /\ r.data = <<>>
    /\ files[r.file] = r.loaded

\* An update and a delete of an absent id on a collection that holds records.
C4_NotFoundReached ==
  \E c \in Unmatched :
    /\ clients[c].op \in {"updateProduct", "deleteUser"}
    /\ clients[c].loaded # <<>>
    /\ clients[c].status = 404

----------------------------------------------------------------------------
(* C5 *)

UpdateOps == {"updateUser", "updateProduct"}

\* C5: an update of an existing record persists and answers with a record
\* of the same id, whatever id the body carries; no update changes the id
\* of any record.
C5_UpdatePreservesId ==
  \A c \in PastLoad(UpdateOps) :
    LET r == clients[c]
        k == FirstMatch(r, r.loaded)
    IN
    /\ Matches(r, r.loaded) # {}
    /\ r.rec.id = r.loaded[k].id
    /\ r.file = UsersFile => r.rec.id = r.id
    /\ Ids(r.data) = Ids(r.loaded)
    /\ r.pc = "done" => Ids(files[r.file]) = Ids(r.loaded)

\* An update was answered whose body carried another id than the record's.
C5_UpdateWithOtherIdReached ==
  \E c \in Answer(UpdateOps) :
    /\ clients[c].body.id # Absent
    /\ clients[c].body.id # clients[c].rec.id

----------------------------------------------------------------------------
(* C6 *)

\* The existing record overlaid by the body: the body wins on every field
\* it has but id, the rest is retained.
Overlay(old, body) ==
  [f \in Fields |->
     IF f # "id" /\ body[f] # Absent THEN body[f] ELSE old[f]]

\* C6: an update replaces the first record of the path id, and only it, by
\* the record overlaid with the body; the other records, the order and the
\* length stay, and the record answered is the record persisted.
C6_UpdateOverlaysFirstMatch ==
  \A c \in PastLoad(UpdateOps) :
    LET r == clients[c]
        k == FirstMatch(r, r.loaded)
    IN
    /\ Matches(r, r.loaded) # {}
    /\ r.data = [r.loaded EXCEPT ![k] = Overlay(r.loaded[k], r.body)]
    /\ r.rec = r.data[k]
    /\ r.pc = "done" => files[r.file] = r.data /\ r.rec = files[r.file][k]

\* An update was answered on a collection where two records have the path
\* id, with a body whose name replaced another name.
C6_UpdateAmongDuplicatesReached ==
  \E c \in Answer(UpdateOps) :
    LET r == clients[c] IN
    /\ Cardinality(Matches(r, r.loaded)) > 1
    /\ r.body.name # Absent
    /\ r.loaded[FirstMatch(r, r.loaded)].name \notin {Absent, r.body.name}
    /\ r.rec.name = r.body.name

----------------------------------------------------------------------------
(* C7 *)

\* C7: for a body without id, createProduct appends as last element a
\* record of id 1 + max(existing ids), or 1 on an empty collection, and
\* leaves the records before it as they were.
C7_CreateProductAppendsNextId ==
  \A c \in Answer({"createProduct"}) :
    LET r == clients[c] IN
    r.body.id = Absent =>
      /\ r.rec.id = OnePlusMax(r.loaded)
      /\ files[ProductsFile] = Append(r.loaded, r.rec)

----------------------------------------------------------------------------
(* C8 *)

\* C8: createUser gives the new record the id of the body if it has one
\* and a generated id otherwise; the record is the body with that id, it is
\* appended as last element, the whole sequence is persisted, and the
\* answer is 201 with the persisted record.
C8_CreateUserIdFromBodyOrGenerated ==
  \A c \in PastLoad({"createUser"}) :
    LET r == clients[c] IN
    /\ r.body.id # Absent => r.rec.id = r.body.id
    /\ r.body.id = Absent => r.rec.id \in GeneratedIds
    /\ r.rec.name = r.body.name
    /\ r.data = Append(r.loaded, r.rec)
    /\ r.status = 201
    /\ r.pc = "done" => files[UsersFile] = r.data /\ Last(files[UsersFile]) = r.rec

\* A create was answered whose body carried an id that is not truthy, and
\* one whose record follows an earlier one.
C8_CreateUserWithFalsyIdReached ==
  \E c \in Answer({"createUser"}) :
    /\ clients[c].body.id = Num(0)
    /\ clients[c].rec.id = Num(0)
    /\ Len(clients[c].loaded) > 0

----------------------------------------------------------------------------
(* C9 *)

\* C9: every persisted user has a string id and every persisted product an
\* integer id, after any requests.
C9_IdTypesKept ==
  /\ \A i \in 1..Len(files[UsersFile]) : IsString(files[UsersFile][i].id)
  /\ \A i \in 1..Len(files[ProductsFile]) : IsInteger(files[ProductsFile][i].id)

----------------------------------------------------------------------------
(* C10 *)

\* Client c is answered by createProduct in this step.
CreateProductAnswers(c) ==
  /\ clients[c].op = "createProduct"
  /\ clients[c].pc = "saving"
  /\ clients'[c].pc = "done" /\ clients'[c].saved

\* C10 as claimed: the id each create assigns is greater than the id every
\* earlier create assigned, also once the record of that id is deleted.
C10_CreateIdsIncrease ==
  [][\A c \in Clients :
       CreateProductAnswers(c) =>
         IsInteger(clients'[c].rec.id) /\ clients'[c].rec.id[2] > issued]_vars

\* C10 as amended: for a body without id on a collection of integer ids,
\* the id a create assigns is greater than every id of the collection it
\* loaded (an id no record holds any more can be assigned again).
C10_CreateIdAboveLoaded ==
  \A c \in PastLoad({"createProduct"}) :
    LET r == clients[c] IN
    (r.body.id = Absent /\ AllIntegerIds(r.loaded)) =>
      /\ IsInteger(r.rec.id)
      /\ \A i \in 1..Len(r.loaded) : r.rec.id[2] > r.loaded[i].id[2]

\* A create on a collection that holds records is about to persist an id
\* that an earlier create had assigned and answered with.
C10_IdAssignedAgainReached ==
  \E c \in PastLoad({"createProduct"}) :
    /\ clients[c].pc = "saving"
    /\ clients[c].body.id = Absent
    /\ clients[c].loaded # <<>>
    /\ clients[c].rec.id[2] <= issued

----------------------------------------------------------------------------
(* C11 *)

\* A query parameter is supplied when the query string gives it a value.
Supplied(v) == v \notin {Absent, Empty}

\* The price bounds of q, where supplied, are decimal numbers.
NumericBounds(q) ==
  /\ Supplied(q.minPrice) => q.minPrice[1] = "dec"
  /\ Supplied(q.maxPrice) => q.maxPrice[1] = "dec"

\* Record p satisfies every filter that q supplies.
Satisfies(p, q) ==
  /\ Supplied(q.category) => p.category = q.category
  /\ Supplied(q.minPrice) => IsInteger(p.price) /\ p.price[2] >= q.minPrice[2]
  /\ Supplied(q.maxPrice) => IsInteger(p.price) /\ p.price[2] <= q.maxPrice[2]

\* The clients that getAllProducts has answered.
Listed ==
  {c \in Clients :
     clients[c].op = "getAllProducts" /\ clients[c].pc = "done" /\ clients[c].via = "res"}

\* C11: getAllProducts answers with exactly the records of the collection
\* that satisfy every supplied filter (category equal, price >= minPrice,
\* price <= maxPrice), in collection order, results being their number; with
\* no filter it answers with the whole collection.
C11_FiltersCompose ==
  \A c \in Listed :
    LET r == clients[c] IN
    NumericBounds(r.query) =>
      /\ r.list = SelectSeq(r.loaded, LAMBDA p : Satisfies(p, r.query))
      /\ r.results = Len(r.list)
      /\ (\A k \in DOMAIN r.query : ~Supplied(r.query[k])) => r.list = r.loaded

\* Of three records the query category & minPrice let the middle one
\* through: the first has the category but a lower price, the last another
\* category.
C11_FilterConjunctionReached ==
  \E c \in Listed :
    LET r == clients[c] IN
    /\ Len(r.loaded) = 3
    /\ Supplied(r.query.category) /\ r.query.minPrice = Dec(2)
    /\ ~Supplied(r.query.maxPrice)
    /\ r.loaded[1].category = r.query.category /\ r.loaded[1].price = Num(1)
    /\ r.loaded[2].category = r.query.category /\ r.loaded[2].price = Num(2)
    /\ r.loaded[3].category \notin {Absent, r.query.category}
    /\ r.list = <<r.loaded[2]>>
    /\ r.results = 1

----------------------------------------------------------------------------
(* C12 *)

\* A non-empty value that is no number.
Unparseable(v) == v[1] = "txt"

\* C12: when minPrice or maxPrice has a non-empty value that is no number,
\* getAllProducts does not fail: it answers 200 with an empty list and
\* results 0, whatever the collection holds.
C12_UnparseableBoundMatchesNothing ==
  \A c \in Clients :
    LET r == clients[c] IN
    (/\ r.op = "getAllProducts" /\ r.pc = "done"
     /\ r.message # LoadError(ProductsFile)
     /\ Unparseable(r.query.minPrice) \/ Unparseable(r.query.maxPrice)) =>
      /\ r.via = "res"
      /\ r.status = 200
      /\ r.list = <<>>
      /\ r.results = 0

\* A catalogue of three priced records was listed with a maxPrice that is
\* no number and no other filter.
C12_UnparseableBoundReached ==
  \E c \in Listed :
    LET r == clients[c] IN
    /\ Len(r.loaded) = 3
    /\ \A i \in 1..3 : IsInteger(r.loaded[i].price)
    /\ Unparseable(r.query.maxPrice)
    /\ ~Supplied(r.query.minPrice) /\ ~Supplied(r.query.category)
    /\ r.list = <<>>

----------------------------------------------------------------------------
(* C13 *)

\* The clients whose request ended with an error handed to next.
Refusals == {c \in Clients : clients[c].pc = "done" /\ clients[c].via = "next"}

Envelope == {"status", "statusCode", "message"}

\* The status sent is the error's statusCode when it has one and 500
\* otherwise, and the body says so.
StatusFromFailure(r) ==
  /\ r.error.http = (IF r.status # 0 THEN r.status ELSE 500)
  /\ Envelope \subseteq r.error.keys
  /\ r.error.status = "error"
  /\ r.error.statusCode = r.error.http

\* C13 as claimed: for every error that reaches the error handler the HTTP
\* status is its statusCode when set and 500 otherwise, and the body is
\* {status: 'error', statusCode, message} with the status sent and the
\* error's message.
C13_EnvelopeCarriesFailure ==
  \A c \in Refusals :
    StatusFromFailure(clients[c]) /\ clients[c].error.message = clients[c].message

\* C13 as amended: the message of the body is the error's message when it
\* has one, and 'Internal server error' when it has none.
C13_EnvelopeWithDefaultMessage ==
  \A c \in Refusals :
    LET r == clients[c] IN
    /\ StatusFromFailure(r)
    /\ r.message # "" => r.error.message = r.message
    /\ r.message = "" => r.error.message = "Internal server error"

\* An error without statusCode and without message was answered.
C13_BareErrorReached ==
  \E c \in Refusals :
    /\ clients[c].status = 0 /\ clients[c].message = ""
    /\ clients[c].error.http = 500

----------------------------------------------------------------------------
(* C14 *)

\* C14: the body of an error response has the field stack if and only if
\* NODE_ENV was 'development' when the error was handled.
C14_StackOnlyInDevelopment ==
  \A c \in Refusals :
    "stack" \in clients[c].error.keys <=> clients[c].env = "development"

\* An error was handled in development and the configuration has changed
\* since.
C14_StackSentReached ==
  \E c \in Refusals :
    /\ clients[c].env = "development" /\ env = "production"
    /\ "stack" \in clients[c].error.keys
    /\ clients[c].status = 404

----------------------------------------------------------------------------
(* C15 *)

ControllerOps ==
  {"getAllUsers", "getUserById", "createUser", "updateUser", "deleteUser",
   "getAllProducts", "getProductById", "createProduct", "updateProduct",
   "deleteProduct"}

\* 'Could not load data from <filename>'
CouldNotLoad(r) ==
  IF r.file = UsersFile THEN "Could not load data from users.json"
  ELSE "Could not load data from products.json"

\* C15: when the load fails, the operation hands the store's failure as it
\* is to the error handler (its message, no status), sends no success
\* response and saves nothing, and the client gets 500.
C15_LoadFailureForwarded ==
  \A c \in Clients :
    LET r == clients[c] IN
    (r.op \in ControllerOps /\ r.failedAt = "load") =>
      /\ r.pc = "done" /\ r.via = "next"
      /\ r.status = 0 /\ r.message = CouldNotLoad(r)
      /\ r.error.http = 500 /\ r.error.message = CouldNotLoad(r)
      /\ ~r.saved /\ r.arg = <<>> /\ r.data = <<>>
      /\ r.rec = NoBody /\ r.list = <<>>

\* The load of a create failed while the file held a record.
C15_LoadFailureReached ==
  \E c \in Clients :
    /\ clients[c].op = "createProduct" /\ clients[c].failedAt = "load"
    /\ clients[c].error.http = 500
    /\ files[ProductsFile] # <<>>

----------------------------------------------------------------------------
(* C16 *)

MutatingOps ==
  {"createUser", "updateUser", "deleteUser",
   "createProduct", "updateProduct", "deleteProduct"}

\* C16: after a successful save of a sequence X under a name, with no save
\* since, a load of that name yields X (length, order and fields), and
\* nothing of the prior content.
C16_SaveLoadRoundTrip ==
  \A c \in Answer(MutatingOps) :
    writer[clients[c].file] = c =>
      LoadJsonData(clients[c].file) = clients[c].arg

----------------------------------------------------------------------------
(* C17 *)

\* 'Could not save data to <filename>'
CouldNotSave(r) ==
  IF r.file = UsersFile THEN "Could not save data to users.json"
  ELSE "Could not save data to products.json"

\* The request of client c ends in this step.
SaveEnds(c) ==
  /\ clients[c].op \in MutatingOps
  /\ clients[c].pc = "saving"
  /\ clients'[c].pc = "done"

\* C17: create, update and delete send their success response (201 for a
\* create, 200 otherwise) only once the save has succeeded; when the save
\* fails the request ends with 'Could not save data to <filename>' handed
\* to the error handler (500), and no success response is sent.
C17_SuccessOnlyAfterSave ==
  /\ [](\A c \in Clients : clients[c].pc = "saving" => clients[c].via = "none")
  /\ [][\A c \in Clients :
          SaveEnds(c) =>
            LET r == clients[c]
                n == clients'[c]
            IN
            \/ /\ n.failedAt = "" /\ n.via = "res"
               /\ n.status = (IF r.op \in {"createUser", "createProduct"}
                               THEN 201 ELSE 200)
               /\ files'[r.file] = r.data
            \/ /\ n.failedAt = "save" /\ n.via = "next"
               /\ n.status = 0 /\ n.message = CouldNotSave(r)
               /\ n.error.http = 500 /\ n.error.message = CouldNotSave(r)
               /\ files' = files]_vars

\* The save of a create failed: the error went to the error handler and
\* the file is without the new record.
C17_SaveFailureReached ==
  \E c \in Refusals :
    /\ clients[c].op = "createUser" /\ clients[c].failedAt = "save"
    /\ clients[c].error.http = 500
    /\ Len(files[UsersFile]) < Len(clients[c].data)

----------------------------------------------------------------------------
(* C18 *)

\* The failure met by the request r was not answered by its controller: it
\* went to the error handler and was answered in the one envelope.
HandedOver(r) ==
  /\ r.via = "res" => r.status < 400
  /\ r.via = "next" =>
       /\ r.error.keys \in {Envelope, Envelope \cup {"stack"}}
       /\ r.error.status = "error"
       /\ r.error.http = r.error.statusCode

\* C18 as claimed: no controller of the repository answers a failure by
\* itself; each is handed to the error handler, so that every error
\* response has the one envelope.
C18_ControllersNeverFormat ==
  \A c \in Clients :
    (clients[c].pc = "done" /\
     clients[c].op \in ControllerOps \cup {"generateDummyImage"}) =>
      HandedOver(clients[c])

\* C18 as amended: the user and product controllers answer no failure by
\* themselves; generateDummyImage hands over what it catches, and answers
\* dimensions it refuses by itself, with 400 and a body of status and
\* message only.
C18_ResourceControllersNeverFormat ==
  \A c \in Clients :
    LET r == clients[c] IN
    /\ (r.pc = "done" /\ r.op \in ControllerOps) => HandedOver(r)
    /\ (r.pc = "done" /\ r.op = "generateDummyImage") =>
         \/ r.via = "res" /\ r.status = 200
         \/ r.via = "next" /\ HandedOver(r)
         \/ /\ r.via = "res" /\ r.status = 400
            /\ r.error.keys = {"status", "message"}
            /\ r.error.message = "Invalid image dimensions"

\* A getUserById of an absent id was answered by the error handler, in
\* development.
C18_NotFoundHandedOverReached ==
  \E c \in Refusals :
    /\ clients[c].op = "getUserById" /\ clients[c].status = 404
    /\ clients[c].error.keys = Envelope \cup {"stack"}
    /\ clients[c].error.message = "User not found"

----------------------------------------------------------------------------
(* C19 *)

\* The routes the application registers, among the requests of the model.
Registered ==
  {<<"GET", <<>>>>, <<"GET", <<"api", "v1">>>>,
   <<"GET", <<"api", "v1", "users">>>>, <<"POST", <<"api", "v1", "users">>>>,
   <<"GET", <<"api", "v1", "users", "1">>>>,
   <<"PATCH", <<"api", "v1", "users", "1">>>>,
   <<"DELETE", <<"api", "v1", "users", "1">>>>,
   <<"GET", <<"api", "v1", "products">>>>,
   <<"POST", <<"api", "v1", "products">>>>,
   <<"GET", <<"api", "v1", "products", "1">>>>,
   <<"PATCH", <<"api", "v1", "products", "1">>>>,
   <<"DELETE", <<"api", "v1", "products", "1">>>>}

\* The requests to the application that have been answered.
Routed ==
  {c \in Clients :
     clients[c].pc = "done" /\ clients[c].op \in {"welcome", "apiInfo", "notFound"}}

----------------------------------------------------------------------------
(* C20 *)

\* C20: the application answers GET /api/dummyImage/<label>/<width>/<height>
\* through the image controller, with 400 'Invalid image dimensions' or
\* with 200 and an image/png, and never with the 404 of an unmatched route.
C20_DummyImageRouteAnswered ==
  \A c \in Routed :
    LET r == clients[c] IN
    (r.method = "GET" /\ Len(r.url) = 5 /\
     SubSeq(r.url, 1, 2) = <<"api", "dummyImage">>) =>
      /\ r.op # "notFound"
      /\ r.via = "res"
      /\ \/ r.status = 200 /\ r.contentType = "image/png"
         \/ /\ r.status = 400
            /\ r.error.keys = {"status", "message"}
            /\ r.error.message = "Invalid image dimensions"

----------------------------------------------------------------------------
(* C21 *)

ReadOps == {"getAllUsers", "getUserById", "getAllProducts", "getProductById"}

\* Client c takes a step of a request that reads.
Reads(c) == clients'[c] # clients[c] /\ clients'[c].op \in ReadOps

\* C21: the operations that list and get by id never call save and leave
\* the persisted collections as they are; getAllUsers answers with the
\* loaded sequence as it is, in its order, results being its length.
C21_ReadsLeaveStorage ==
  /\ [](\A c \in Clients :
          LET r == clients[c] IN
          /\ r.op \in ReadOps =>
               r.pc # "saving" /\ r.saves = 0 /\ ~r.saved /\ r.arg = <<>>
          /\ (r.op = "getAllUsers" /\ r.via = "res") =>
               r.list = r.loaded /\ r.results = Len(r.loaded))
  /\ [][\A c \in Clients :
          Reads(c) =>
            /\ files' = files
            /\ (clients'[c].op = "getAllUsers" /\ clients'[c].via = "res") =>
                 clients'[c].list = files[UsersFile]]_vars

\* Three users, the first unlike the last, were listed.
C21_UsersListedReached ==
  \E c \in Clients :
    LET r == clients[c] IN
    /\ r.op = "getAllUsers" /\ r.via = "res"
    /\ Len(r.list) = 3 /\ r.list[1] # r.list[3]
    /\ r.results = 3
    /\ files[UsersFile] = r.list

----------------------------------------------------------------------------
(* C22 *)

\* The requests by id whose load resolved.
Loaded(ops) ==
  {c \in Clients :
     clients[c].op \in ops /\ clients[c].pc # "idle" /\ clients[c].failedAt # "load"}

\* C22: getById, update and delete act on the first record, in sequence
\* order, whose id is exactly the requested id (for Users a number never
\* equals the string that spells it); of several records of that id only
\* the earliest is returned, updated or removed, the others are untouched.
C22_FirstExactMatch ==
  \A c \in Loaded(ByIdOps) :
    LET r == clients[c]
        s == r.loaded
        k == FirstMatch(r, s)
    IN
    IF Matches(r, s) = {} THEN IsNotFound(r) /\ r.saves = 0
    ELSE
      /\ r.idx = k
      /\ r.op \in {"getUserById", "getProductById"} =>
           r.via = "res" /\ r.rec = s[k] /\ r.saves = 0
      /\ r.op \in UpdateOps =>
           /\ Len(r.arg) = Len(s)
           /\ \A j \in 1..Len(s) : j # k => r.arg[j] = s[j]
           /\ r.arg[k].id = s[k].id
      /\ r.op \in {"deleteUser", "deleteProduct"} =>
           r.arg = Without(s, k) /\ (r.via = "res" => r.rec = s[k])

\* The user of id "1" was deleted from a collection that holds, in this
\* order, a user of the number 1 and two users of id "1": the second record
\* went, the first and the third stay.
C22_SecondOfThreeRemovedReached ==
  \E c \in Answer({"deleteUser"}) :
    LET r == clients[c] IN
    /\ Len(r.loaded) = 3
    /\ r.id = Dec(1)
    /\ r.loaded[1].id = Num(1)
    /\ r.loaded[2].id = Dec(1)
    /\ r.loaded[3].id = Dec(1)
    /\ r.rec = r.loaded[2]
    /\ files[UsersFile] = <<r.loaded[1], r.loaded[3]>>

----------------------------------------------------------------------------
(* C23 *)

\* The creates of a user whose body carries no id, past their load.
CreatesWithoutId ==
  {c \in PastLoad({"createUser"}) : clients[c].body.id = Absent}

\* C23 as claimed: a create of a user without an id yields a record whose
\* id is present, not empty, and the id of no record already in the
\* collection.
C23_GeneratedIdIsNew ==
  \A c \in CreatesWithoutId :
    LET r == clients[c] IN
    /\ IsString(r.rec.id) /\ r.rec.id # Empty
    /\ \A i \in 1..Len(r.loaded) : r.loaded[i].id # r.rec.id

\* C23: a create of a user without an id appends, after the records loaded,
\* a record whose id is a string that is not empty, the one generated for
\* this request; the collection is not consulted for it.
C23_GeneratedIdIsPresent ==
  \A c \in CreatesWithoutId :
    LET r == clients[c] IN
    /\ IsString(r.rec.id) /\ r.rec.id # Empty
    /\ r.rec.id \in GeneratedIds
    /\ r.arg = Append(r.loaded, r.rec)

\* A create without an id was answered with the id a record of the
\* collection already has.
C23_GeneratedIdTakenReached ==
  \E c \in CreatesWithoutId :
    LET r == clients[c] IN
    /\ r.pc = "done" /\ r.status = 201
    /\ \E i \in 1..Len(r.loaded) : r.loaded[i].id = r.rec.id
    /\ files[UsersFile] = Append(r.loaded, r.rec)

----------------------------------------------------------------------------
(* C24 *)

\* The load of the request of client c resolves in this step.
LoadResolves(c) ==
  /\ clients[c].pc = "idle"
  /\ clients'[c].op \in ControllerOps
  /\ clients'[c].failedAt # "load"

\* The mutating requests whose save has completed on the file and has not
\* been overwritten since.
LastSaved(file) ==
  {d \in Answer(MutatingOps) : clients[d].file = file /\ writer[file] = d}

\* C24: nothing is cached across requests: a request whose load starts
\* after the save of a mutating request has completed, no later save having
\* overwritten it, loads the sequence that request saved, under any
\* interleaving.
C24_LoadsSeeCompletedSaves ==
  [][\A c \in Clients :
       LoadResolves(c) =>
         /\ clients'[c].loads = 1
         /\ clients'[c].loaded = files[clients'[c].file]
         /\ \A d \in LastSaved(clients'[c].file) :
              clients'[c].loaded = clients[d].data]_vars

\* A request has loaded what the other client's request saved, which is
\* not what that request had loaded.
C24_MutationObservedReached ==
  \E c, d \in Clients :
    /\ c # d
    /\ clients[c].op \in ControllerOps
    /\ clients[c].pc # "idle" /\ clients[c].failedAt # "load"
    /\ d \in LastSaved(clients[c].file)
    /\ clients[c].loaded = clients[d].data
    /\ clients[d].data # clients[d].loaded

----------------------------------------------------------------------------
(* C25 *)

UserOps == {"getAllUsers", "getUserById", "createUser", "updateUser", "deleteUser"}
ProductOps == ControllerOps \ UserOps

\* Client c takes a step of a request of ops: the request starts, or its
\* save ends.
Steps(c, ops) ==
  /\ clients'[c] # clients[c]
  /\ clients'[c].op \in ops \/ clients[c].op \in ops

\* C25: the two collections never interact: a Users operation loads and
\* saves users.json only and a Products operation products.json only, so
\* that under any interleaving a Users request leaves the Products
\* collection as it is, and a Products request the Users collection.
C25_CollectionsNeverInteract ==
  /\ [](\A c \in Clients :
          /\ clients[c].op \in UserOps => clients[c].file = UsersFile
          /\ clients[c].op \in ProductOps => clients[c].file = ProductsFile)
  /\ [][\A c \in Clients :
          /\ Steps(c, UserOps) =>
               /\ files'[ProductsFile] = files[ProductsFile]
               /\ writer'[ProductsFile] = writer[ProductsFile]
               /\ LoadResolves(c) => clients'[c].loaded = files[UsersFile]
          /\ Steps(c, ProductOps) =>
               /\ files'[UsersFile] = files[UsersFile]
               /\ writer'[UsersFile] = writer[UsersFile]
               /\ LoadResolves(c) => clients'[c].loaded = files[ProductsFile]]_vars

\* A Users request has changed users.json between the load and the save of
\* a Products request that is about to change products.json, which is
\* still as that request loaded it.
C25_InterleavedWritesReached ==
  \E c, d \in Clients :
    /\ c \in Answer(UserOps) /\ writer[UsersFile] = c
    /\ clients[c].data # clients[c].loaded
    /\ clients[d].op \in ProductOps /\ clients[d].pc = "saving"
    /\ clients[d].data # clients[d].loaded
    /\ clients[d].loaded = files[ProductsFile]
    /\ files[ProductsFile] # files[UsersFile]

----------------------------------------------------------------------------
(* C26 *)

DistinctIds(s) == \A i, j \in 1..Len(s) : i # j => s[i].id # s[j].id

\* Two creates of a product in flight at once: each has loaded, neither
\* has saved.
ConcurrentCreates(c, d) ==
  /\ c # d
  /\ clients[c].op = "createProduct" /\ clients[c].pc = "saving"
  /\ clients[d].op = "createProduct" /\ clients[d].pc = "saving"

\* C26 as claimed: with distinct ids to start with and bodies without an
\* id, the persisted products never share an id under any interleaving,
\* and two concurrent creates are never assigned the same id.
C26_ConcurrentCreatesDiffer ==
  /\ DistinctIds(files[ProductsFile])
  /\ \A c, d \in Clients :
       ConcurrentCreates(c, d) => clients[c].rec.id # clients[d].rec.id

\* C26: with distinct ids to start with and bodies without an id, no two
\* records of the persisted products share an id, under any interleaving of
\* creates, updates and deletes; two creates that loaded the same sequence
\* are assigned the same id, one more than its largest.
C26_PersistedIdsDistinct ==
  /\ DistinctIds(files[ProductsFile])
  /\ AllIntegerIds(files[ProductsFile])
  /\ \A c, d \in Clients :
       (ConcurrentCreates(c, d) /\ clients[c].loaded = clients[d].loaded) =>
         /\ clients[c].rec.id = clients[d].rec.id
         /\ clients[c].rec.id = OnePlusMax(clients[c].loaded)

\* Two creates that both loaded the one product of id 1 were both answered
\* 201 with the id 2; the file holds the record of the one that saved last.
C26_SameIdAnsweredTwiceReached ==
  \E c, d \in Answer({"createProduct"}) :
    /\ c # d
    /\ clients[c].loaded = clients[d].loaded
    /\ Len(clients[c].loaded) = 1 /\ clients[c].loaded[1].id = Num(1)
    /\ clients[c].status = 201 /\ clients[d].status = 201
    /\ clients[c].rec.id = Num(2) /\ clients[d].rec.id = Num(2)
    /\ writer[ProductsFile] = d
    /\ files[ProductsFile] = clients[d].data
    /\ DistinctIds(files[ProductsFile])

----------------------------------------------------------------------------
(* C27 *)

\* The text of an id as a client puts it in the path: a string is itself,
\* a number its decimal digits, null the word null.
TextOf(id) ==
  CASE id[1] = "num" -> Dec(id[2])
    [] id[1] = "null" -> Txt(0)
    [] OTHER -> id

\* The creates answered with success, the file being as their save left it.
Created ==
  {c \in Answer({"createUser", "createProduct"}) : writer[clients[c].file] = c}

\* What a getById of the text of the id of record R answers now.
GetByTextOfId(file, R) ==
  IF file = UsersFile
  THEN GetUserById(Request("getUserById", UsersFile, TextOf(R.id), NoBody),
                   LoadJsonData(UsersFile))
  ELSE GetProductById(Request("getProductById", ProductsFile, TextOf(R.id), NoBody),
                      LoadJsonData(ProductsFile))

OfIdType(file, R) ==
  IF file = UsersFile THEN IsString(R.id) ELSE IsInteger(R.id)

----------------------------------------------------------------------------
(* C28 *)

\* C28: every controller invocation ends with exactly one outcome, one
\* success response or one call of next, never both and never neither,
\* whether the load and the save succeed or fail and whether the id matches
\* or not; and, loads and saves terminating, every request reaches it.
C28_ExactlyOneOutcome ==
  /\ [](\A c \in Clients :
          LET r == clients[c] IN
          r.op \in ControllerOps =>
            /\ r.pc = "saving" => r.responses = 0 /\ r.nexts = 0
            /\ r.pc = "done" =>
                 /\ r.responses + r.nexts = 1
                 /\ r.via = "res" <=> r.responses = 1
                 /\ r.via = "next" <=> r.nexts = 1)
  /\ \A c \in Clients :
       (clients[c].pc = "saving") ~> (clients[c].pc = "done")

\* A delete of a product found its record, its save failed, and the
\* failure went to next once, with no response from the controller.
C28_FailedSaveAfterMatchReached ==
  \E c \in Clients :
    LET r == clients[c] IN
    /\ r.op = "deleteProduct" /\ r.pc = "done"
    /\ r.idx = 1 /\ r.failedAt = "save"
    /\ r.nexts = 1 /\ r.responses = 0 /\ r.via = "next"

----------------------------------------------------------------------------
(* C29 *)

\* The sequence arg is the sequence s with the one mutation of request r.
SingleMutation(r, s, arg) ==
  CASE r.op \in {"createUser", "createProduct"} ->
         /\ Len(arg) = Len(s) + 1
         /\ SubSeq(arg, 1, Len(s)) = s
    [] r.op \in UpdateOps ->
         /\ r.idx \in 1..Len(s)
         /\ Len(arg) = Len(s)
         /\ \A j \in 1..Len(s) : j # r.idx => arg[j] = s[j]
    [] r.op \in {"deleteUser", "deleteProduct"} ->
         /\ r.idx \in 1..Len(s)
         /\ arg = Without(s, r.idx)
    [] OTHER -> FALSE

\* C29: within every request there is exactly one load and at most one
\* save, the load first; only create, update and delete save, and only
\* after a load that succeeded and, for update and delete, a match; what is
\* saved is the sequence the request loaded with its single mutation.
C29_OneLoadThenOneSave ==
  /\ [](\A c \in Clients :
          LET r == clients[c] IN
          r.op \in ControllerOps =>
            /\ r.loads = 1
            /\ r.saves \in {0, 1}
            /\ r.saves = 0 <=> (r.pc = "done" /\ r.failedAt # "save" /\ ~r.saved)
            /\ r.saves = 1 =>
                 /\ r.op \in MutatingOps
                 /\ r.failedAt # "load"
                 /\ r.op \notin {"createUser", "createProduct"} =>
                      Matches(r, r.loaded) # {}
                 /\ SingleMutation(r, r.loaded, r.arg))
  /\ [][files' # files =>
          \E c \in Clients :
            /\ clients[c].pc = "saving" /\ clients[c].saves = 1
            /\ clients'[c].saves = 1
            /\ files' = [files EXCEPT ![clients[c].file] = clients[c].data]]_vars

\* An update of a product has saved the two records it loaded with the
\* first one changed and the second as it was, after one load and one save.
C29_UpdateSavedOnceReached ==
  \E c \in Answer({"updateProduct"}) :
    LET r == clients[c] IN
    /\ r.loads = 1 /\ r.saves = 1
    /\ Len(r.loaded) = 2 /\ r.idx = 1
    /\ r.arg[1] # r.loaded[1]
    /\ r.arg[2] = r.loaded[2]
    /\ files[ProductsFile] = r.data

----------------------------------------------------------------------------
(* C30 *)

\* The positions of s whose integer id the path id of r spells exactly, in
\* decimal digits and nothing else.
SpelledBy(r, s) ==
  {i \in 1..Len(s) : IsInteger(s[i].id) /\ r.id = Dec(s[i].id[2])}

\* C30: getById, update and delete of a product match a record only when
\* the path id is exactly the decimal form of the record's integer id;
\* every other path id, text that is no number or digits followed by other
\* characters such as 1abc, ends in the 404 of the resource with nothing
\* saved.
C30_ExactDecimalPathOnly ==
  \A c \in Loaded({"getProductById", "updateProduct", "deleteProduct"}) :
    LET r == clients[c] IN
    IF SpelledBy(r, r.loaded) = {}
    THEN IsNotFound(r) /\ r.saves = 0
    ELSE r.idx \in SpelledBy(r, r.loaded)

====
